---- MODULE Spec2Model ----
(***************************************************************************)
(* Order-intake conversation of the marketplace bot (src/bot.py): the      *)
(* per-user FSM session kept by the dispatcher's MemoryStorage, the orders *)
(* table, and the message handlers in their registration order.  Handlers  *)
(* are coroutines that the polling dispatcher runs as concurrent tasks; a  *)
(* handler is split at the awaits that really suspend (replies, downloads, *)
(* notifications), and each piece is one atomic action.                    *)
(***************************************************************************)
EXTENDS Integers, Sequences, FiniteSets, Bags, TLC

\* ------------------------------------------------------------- bounds
\* rows the table may hold
MaxOrders == 2
\* handler coroutines that may be suspended at the same time
MaxTasks == 2
\* updates of a user that may be dispatched while one of the user's handlers
\* is still suspended
MaxOvertake == 1

\* ------------------------------------------------------------- identities
ADMIN_ID == 1
Users == {ADMIN_ID, ADMIN_ID + 1}

\* ------------------------------------------------------------- values
\* Python's None (message.text of a non-text message, dict.get of a missing key)
PyNone == "<None>"
\* a key that is not in the FSM data dictionary
Absent == "<absent>"

\* texts of the reply keyboards and commands (emoji written as :name:)
T_Start == "/start"
T_BuyWebsite == ":globe: Buy a Website"
T_BuyBot == ":robot: Buy a Telegram Bot"
T_MyOrders == ":package: My Orders"
T_ContactAdminBtn == ":speech: Contact Admin"
T_Cancel == "Cancel"
T_IPaid == "I paid"
T_ContactAdmin == "Contact Admin"
T_NoFiles == "No files"
T_USDT == "USDT (TRC20) - pay on Tron network"
T_Manual == "Manual payment (bank/card)"
T_Custom == "Custom"
T_Orders == "/orders"
T_Order1 == "/order_1"
T_OrderBad == "/order_x"
T_SetStatus1 == "/setstatus 1 shipped"
T_SetStatus2 == "/setstatus 2 shipped"
T_SetStatusNew == "/setstatus 1 new"
T_SetStatusBad == "/setstatus x shipped"
T_SetStatusShort == "/setstatus 1"

\* the conversation steps; idle is the FSM state None
OrderStates == {"choosing_template", "entering_details", "uploading_files",
                "choosing_payment", "waiting_payment_ref"}
Steps == OrderStates \cup {"idle"}

\* ------------------------------------------------------------- string functions
\* aiogram's Command filter: the text is the command word /<cmd>
IsCommand(text, cmd) ==
    \/ cmd = "start" /\ text = T_Start
    \/ cmd = "orders" /\ text = T_Orders

\* str.startswith
StartsWith(text, prefix) ==
    \/ prefix = "/order_" /\ text \in {T_Order1, T_OrderBad}
    \/ prefix = "/setstatus"
         /\ text \in {T_SetStatus1, T_SetStatus2, T_SetStatusNew, T_SetStatusBad,
                      T_SetStatusShort}

\* the `in` operator on strings: needle in text
Contains(text, needle) ==
    \/ needle = "USDT" /\ text = T_USDT
    \/ needle = "Manual" /\ text = T_Manual

\* str.lower
Lower(text) == IF text = T_NoFiles THEN "no files" ELSE text

\* str.split() of the /setstatus texts
Split(text) ==
    CASE text = T_SetStatus1 -> <<"/setstatus", "1", "shipped">>
      [] text = T_SetStatus2 -> <<"/setstatus", "2", "shipped">>
      [] text = T_SetStatusNew -> <<"/setstatus", "1", "new">>
      [] text = T_SetStatusBad -> <<"/setstatus", "x", "shipped">>
      [] text = T_SetStatusShort -> <<"/setstatus", "1">>
      [] OTHER -> <<text>>

\* text.split('_', 1)[1] of the /order_ texts
AfterUnderscore(text) ==
    CASE text = T_Order1 -> "1"
      [] text = T_OrderBad -> "x"
      [] OTHER -> ""

\* int(s); -1 stands for the ValueError
ParseInt(s) ==
    CASE s = "1" -> 1
      [] s = "2" -> 2
      [] s = "3" -> 3
      [] OTHER -> -1

\* ------------------------------------------------------------- inbound events
\* a Message as the handlers read it: its content kind and message.text
Msg(kind, text) == [kind |-> kind, text |-> text]

Document == Msg("document", PyNone)
Photo == Msg("photo", PyNone)
Other == Msg("other", PyNone)
Text(t) == Msg("text", t)

\* every message of the model
Messages ==
    {Text(t) : t \in {T_Start, T_BuyWebsite, T_BuyBot, T_MyOrders, T_ContactAdminBtn,
                      T_Cancel, T_IPaid, T_ContactAdmin, T_NoFiles, T_USDT, T_Manual,
                      T_Custom, T_Orders, T_Order1, T_OrderBad, T_SetStatus1,
                      T_SetStatus2, T_SetStatusNew, T_SetStatusBad, T_SetStatusShort}}
    \cup {Document, Photo, Other}

\* The free text a user types at a step; the administrator types commands.
FreeText(u, st) ==
    IF u # ADMIN_ID THEN T_Custom
    ELSE IF st = "choosing_template" THEN T_Orders
    ELSE IF st = "entering_details" THEN T_Order1
    ELSE T_SetStatus1

\* the message a script names by its tag
MsgOf(u, st, tag) ==
    CASE tag = "free" -> Text(FreeText(u, st))
      [] tag = "no files" -> Text(T_NoFiles)
      [] tag = "document" -> Document
      [] tag = "photo" -> Photo
      [] tag = "other" -> Other
      [] tag = "usdt" -> Text(T_USDT)
      [] tag = "manual" -> Text(T_Manual)
      [] tag = "website" -> Text(T_BuyWebsite)
      [] tag = "bot" -> Text(T_BuyBot)
      [] tag = "command" -> Text(T_SetStatus1)

\* A run is played by a cast of users who follow a script: the category
\* buttons, the attachment message, the payment messages and the reference
\* message they use.  The scripts together use every button of every keyboard
\* and every kind of message.
Script(category, files, pay, ref) ==
    [category |-> category, files |-> files, pay |-> pay, ref |-> ref]

ScriptUsdt == Script({"website"}, {"no files"}, {"usdt"}, {"free"})
ScriptManual == Script({"bot"}, {"document"}, {"manual"}, {"free"})
ScriptPhoto == Script({"website"}, {"photo"}, {"photo"}, {"photo"})
ScriptReceipt == Script({"website"}, {"no files"}, {"usdt"}, {"photo"})
ScriptFallback == Script({"bot"}, {"other"}, {"manual", "free"}, {"command"})
ScriptFree == Script({"website", "bot"}, {"free"}, {"free"}, {"free"})

\* the runs: a customer alone plays every script, the administrator alone
\* two of them, both together one
Runs ==
    ({{ADMIN_ID + 1}}
        \X {ScriptUsdt, ScriptManual, ScriptPhoto, ScriptReceipt, ScriptFallback,
            ScriptFree})
    \cup ({{ADMIN_ID}} \X {ScriptUsdt, ScriptFallback})
    \cup ({{ADMIN_ID, ADMIN_ID + 1}} \X {ScriptUsdt})

\* The messages user u sends at step st under script sc when `solo` (alone in
\* the cast): everywhere /start, Cancel and the category buttons; at a step
\* its keyboard's buttons and the script's message.  In a cast of two a user
\* walks the flow forward only.
Inputs(u, st, sc, solo) ==
    (IF solo \/ st = "idle"
     THEN {MsgOf(u, st, c) : c \in sc.category}
     ELSE {})
    \cup (IF solo THEN {Text(T_Start), Text(T_Cancel)} ELSE {})
    \cup
    (CASE st = "idle" ->
            {Text(t) : t \in {T_MyOrders, T_ContactAdminBtn, T_Custom, T_Orders,
                              T_Order1, T_OrderBad, T_SetStatus1, T_SetStatus2,
                              T_SetStatusNew, T_SetStatusBad, T_SetStatusShort}}
            \cup {Photo}
       [] st \in {"choosing_template", "entering_details"} ->
            {MsgOf(u, st, "free")}
       [] st = "uploading_files" -> {MsgOf(u, st, f) : f \in sc.files}
       [] st = "choosing_payment" -> {MsgOf(u, st, f) : f \in sc.pay}
       [] st = "waiting_payment_ref" ->
            {Text(T_IPaid), Text(T_ContactAdmin)}
            \cup {MsgOf(u, st, f) : f \in sc.ref})

\* ------------------------------------------------------------- state
VARIABLES
    state,   \* state[u]: the FSM state of user u in MemoryStorage ("idle" is None)
    data,    \* data[u]: the FSM data dictionary of user u
    orders,  \* the rows of table orders, in insertion order
    tasks,   \* bag of handler coroutines suspended at an await
    reply,   \* the last message.answer: its chat, text and rows (text "": none sent)
    cast,    \* the users who send messages in this run
    script   \* the script they follow

vars == <<state, data, orders, tasks, reply, cast, script>>
env == <<cast, script>>

\* data.get('order_id') of a dictionary without that key (None)
NoOrderId == 0

\* the empty dictionary: no key is present
EmptyData ==
    [product_type |-> Absent, template_choice |-> Absent, details |-> Absent,
     files |-> Absent, payment_method |-> Absent, order_id |-> NoOrderId]

\* dict.get(key) of a text field: None for a missing key
DataGet(d, k) == IF d[k] = Absent THEN PyNone ELSE d[k]

\* ------------------------------------------------------------- FSMContext
\* state.set_state(s)
SetState(st, u, s) == [st EXCEPT ![u] = s]
\* state.update_data(key=value)
UpdateData(dt, u, k, v) == [dt EXCEPT ![u][k] = v]
\* a state.clear() that forgets set_data({}): the fields survive the reset
ClearData_KeepsData(dt, u) == dt

\* state.clear(): set_state(None) and set_data({})
ClearState(st, u) == [st EXCEPT ![u] = "idle"]
ClearData(dt, u) == [dt EXCEPT ![u] = EmptyData]

\* ------------------------------------------------------------- orders table
\* message.from_user.username or full_name
Username(u) == IF u = ADMIN_ID THEN "admin" ELSE "customer"

\* an id taken from the row count instead of the sequence: the newest id is reused
NextId_RowCount(os) == IF Len(os) = 0 THEN 1 ELSE Len(os)

\* c.lastrowid of INTEGER PRIMARY KEY AUTOINCREMENT: one more than the largest
\* id ever inserted (rows are never deleted)
NextId(os) == Len(os) + 1

\* save_order: INSERT one row, return its id
save_order(os, order) == Append(os, [id |-> NextId(os)] @@ order)

\* get_order: SELECT * WHERE id = ?; the set of matching rows (empty: None)
get_order(os, oid) == {os[i] : i \in {j \in 1..Len(os) : os[j].id = oid}}

\* an UPDATE restricted to orders that are still new (a guarded transition)
set_order_status_OnlyNew(os, oid, status) ==
    [i \in 1..Len(os) |->
        IF os[i].id = oid /\ os[i].status = "new"
        THEN [os[i] EXCEPT !.status = status]
        ELSE os[i]]

\* set_order_status: UPDATE orders SET status = ? WHERE id = ?
set_order_status(os, oid, status) ==
    [i \in 1..Len(os) |-> IF os[i].id = oid THEN [os[i] EXCEPT !.status = status]
                          ELSE os[i]]

\* an UPDATE that also stores the reference in the payment_method column
UpdateReference_OverwritesMethod(os, oid, ref, status) ==
    [i \in 1..Len(os) |->
        IF oid # NoOrderId /\ os[i].id = oid
        THEN [os[i] EXCEPT !.payment_reference = ref, !.status = status,
                           !.payment_method = ref]
        ELSE os[i]]

\* UPDATE orders SET payment_reference = ?, status = ? WHERE id = ?
\* (id = NULL matches no row)
UpdateReference(os, oid, ref, status) ==
    [i \in 1..Len(os) |->
        IF oid # NoOrderId /\ os[i].id = oid
        THEN [os[i] EXCEPT !.payment_reference = ref, !.status = status]
        ELSE os[i]]

\* a price table with one price for every category
EstimatedPrice_Flat(product_type) == 100

\* estimated_price
EstimatedPrice(product_type) == IF product_type = "Website" THEN 100 ELSE 80

\* datetime.utcnow().isoformat(): the clock reading when the order is built
\* (one reading stands for all: nothing compares two of them)
UtcNow == "<utcnow>"

\* the order dict payment_step builds from the session data
Order(u, d, payment_method) ==
    [user_id |-> u,
     username |-> Username(u),
     product_type |-> DataGet(d, "product_type"),
     template_choice |-> DataGet(d, "template_choice"),
     details |-> DataGet(d, "details"),
     files |-> DataGet(d, "files"),
     price |-> EstimatedPrice(DataGet(d, "product_type")),
     payment_method |-> payment_method,
     payment_reference |-> "",
     status |-> "new",
     created_at |-> UtcNow]

\* ------------------------------------------------------------- tasks
\* a suspended handler: its user, the handler, the local variables it still
\* needs, and how many later updates of the user were dispatched meanwhile
Task(u, pc, arg, oid) ==
    [user |-> u, pc |-> pc, arg |-> arg, oid |-> oid, overtaken |-> 0]
TasksOf(u) == {t \in BagToSet(tasks) : t.user = u}
\* An update of user u can be dispatched.  A user alone in the cast sends
\* messages while earlier ones are still handled; in a cast of two a user
\* sends the next message once the previous one is handled.
CanDispatch(u) ==
    \A t \in TasksOf(u) : cast = {u} /\ t.overtaken < MaxOvertake
CanSuspend(u) == BagCardinality(tasks) < MaxTasks
\* the suspended handlers after an update of user u was dispatched
Overtake(t, u) == IF t.user = u THEN [t EXCEPT !.overtaken = @ + 1] ELSE t
Dispatched(u) ==
    [x \in {Overtake(t, u) : t \in BagToSet(tasks)} |->
        tasks[CHOOSE t \in BagToSet(tasks) : Overtake(t, u) = x]]
Suspend(t) == Dispatched(t.user) (+) SetToBag({t})
Finish(t) == tasks (-) SetToBag({t})

\* ------------------------------------------------------------- replies
\* message.answer(text): the chat it goes to, the text (its first words) and
\* the order rows or order id the text is built from
Answer(u, text, shown) == [chat |-> u, text |-> text, shown |-> shown]
NoReply == Answer(0, "", <<>>)
\* the update of user u ended without any message.answer
Silent(u) == Answer(u, "", <<>>)

\* ------------------------------------------------------------- routing
\* The router tries the handlers in registration order and runs the first whose
\* filter accepts the message; state filters read the sender's FSM state.
Route(st, m) ==
    IF IsCommand(m.text, "start") THEN "cmd_start"
    ELSE IF m.text = T_BuyWebsite THEN "buy_website"
    ELSE IF m.text = T_BuyBot THEN "buy_bot"
    ELSE IF st = "choosing_template" THEN "choose_template"
    ELSE IF st = "entering_details" THEN "details_step"
    ELSE IF st = "uploading_files" THEN "files_step"
    ELSE IF st = "choosing_payment" THEN "payment_step"
    ELSE IF st = "waiting_payment_ref" THEN "waiting_payment"
    ELSE IF m.text = T_MyOrders THEN "my_orders"
    ELSE IF m.text = T_ContactAdminBtn THEN "contact_admin"
    ELSE IF IsCommand(m.text, "orders") THEN "admin_list_orders"
    ELSE IF StartsWith(m.text, "/order_") THEN "admin_view_order"
    ELSE IF StartsWith(m.text, "/setstatus") THEN "admin_set_status"
    ELSE "unhandled"

Init ==
    /\ state = [u \in Users |-> "idle"]
    /\ data = [u \in Users |-> EmptyData]
    /\ orders = <<>>
    /\ tasks = EmptyBag
    /\ reply = NoReply
    /\ \E r \in Runs : cast = r[1] /\ script = r[2]

\* ------------------------------------------------------------- handlers
\* /start: clear the session and show the main menu
cmd_start(u, m) ==
    /\ Route(state[u], m) = "cmd_start"
    /\ UNCHANGED env
    /\ state' = ClearState(state, u)
    /\ data' = ClearData(data, u)
    /\ reply' = Answer(u, "Welcome to TANKIST256 marketplace!", <<>>)
    /\ tasks' = Dispatched(u)
    /\ UNCHANGED orders

\* category selection: set_state, then the reply is awaited, then update_data
buy_website(u, m) ==
    /\ Route(state[u], m) = "buy_website"
    /\ UNCHANGED env
    /\ CanSuspend(u)
    /\ state' = SetState(state, u, "choosing_template")
    /\ reply' = Answer(u, "You chose: Website.", <<>>)
    /\ tasks' = Suspend(Task(u, "buy_website", "Website", NoOrderId))
    /\ UNCHANGED <<data, orders>>

buy_bot(u, m) ==
    /\ Route(state[u], m) = "buy_bot"
    /\ UNCHANGED env
    /\ CanSuspend(u)
    /\ state' = SetState(state, u, "choosing_template")
    /\ reply' = Answer(u, "You chose: Telegram Bot.", <<>>)
    /\ tasks' = Suspend(Task(u, "buy_bot", "Telegram Bot", NoOrderId))
    /\ UNCHANGED <<data, orders>>

\* the rest of buy_website / buy_bot once the reply is sent
buy_update_data(t) ==
    /\ t \in BagToSet(tasks)
    /\ UNCHANGED env
    /\ t.pc \in {"buy_website", "buy_bot"}
    /\ data' = UpdateData(data, t.user, "product_type", t.arg)
    /\ tasks' = Finish(t)
    /\ UNCHANGED <<state, orders, reply>>

\* the Cancel branch of the four steps before the order is saved
CancelOrder(u) ==
    /\ state' = ClearState(state, u)
    /\ data' = ClearData(data, u)
    /\ reply' = Answer(u, "Order cancelled.", <<>>)

choose_template(u, m) ==
    /\ Route(state[u], m) = "choose_template"
    /\ UNCHANGED env
    /\ IF m.text = T_Cancel
       THEN CancelOrder(u)
       ELSE /\ data' = UpdateData(data, u, "template_choice", m.text)
            /\ state' = SetState(state, u, "entering_details")
            /\ reply' = Answer(u, "Please describe your requirements", <<>>)
    /\ tasks' = Dispatched(u)
    /\ UNCHANGED orders

details_step(u, m) ==
    /\ Route(state[u], m) = "details_step"
    /\ UNCHANGED env
    /\ IF m.text = T_Cancel
       THEN CancelOrder(u)
       ELSE /\ data' = UpdateData(data, u, "details", m.text)
            /\ state' = SetState(state, u, "uploading_files")
            /\ reply' = Answer(u, "If you have files, please send them now.", <<>>)
    /\ tasks' = Dispatched(u)
    /\ UNCHANGED orders

\* files_info of a message that is neither a document nor a photo
FilesInfo(m) ==
    IF m.text # PyNone /\ Lower(m.text) = "no files" THEN "no files"
    ELSE "files:other"

\* files_info of a document or a photo
DownloadInfo(m) == IF m.kind = "document" THEN "document:logo.png" ELSE "photo"

files_step(u, m) ==
    /\ Route(state[u], m) = "files_step"
    /\ UNCHANGED env
    /\ IF m.text = T_Cancel
       THEN /\ CancelOrder(u)
            /\ tasks' = Dispatched(u)
       ELSE IF m.kind \in {"document", "photo"}
       THEN \* suspended in the download of the attachment
            /\ CanSuspend(u)
            /\ tasks' = Suspend(Task(u, "files_step", DownloadInfo(m), NoOrderId))
            /\ UNCHANGED <<state, data, reply>>
       ELSE /\ data' = UpdateData(data, u, "files", FilesInfo(m))
            /\ state' = SetState(state, u, "choosing_payment")
            /\ reply' = Answer(u, "Choose a payment method:", <<>>)
            /\ tasks' = Dispatched(u)
    /\ UNCHANGED orders

\* the rest of files_step once the download returned (saved) or raised
files_step_downloaded(t, saved) ==
    /\ t \in BagToSet(tasks)
    /\ UNCHANGED env
    /\ t.pc = "files_step"
    /\ IF saved
       THEN /\ data' = UpdateData(data, t.user, "files", t.arg)
            /\ state' = SetState(state, t.user, "choosing_payment")
            /\ reply' = Answer(t.user, "Choose a payment method:", <<>>)
       ELSE /\ reply' = Silent(t.user)
            /\ UNCHANGED <<state, data>>
    /\ tasks' = Finish(t)
    /\ UNCHANGED orders

\* the reply of payment_step by payment method family
PaymentReply(u, payment_method, order_id) ==
    IF Contains(payment_method, "USDT")
    THEN Answer(u, "Order created. Pay to TRC20 address", <<order_id>>)
    ELSE IF Contains(payment_method, "Manual")
    THEN Answer(u, "Order created. Please contact admin for bank/card details",
                <<order_id>>)
    ELSE Answer(u, "Order created. We will contact you soon.", <<order_id>>)

\* payment_step up to its first reply: the Cancel branch, or update_data,
\* get_data, save_order and the reply; for a message without text
\* `'USDT' in payment_method` raises TypeError after save_order
payment_step(u, m) ==
    /\ Route(state[u], m) = "payment_step"
    /\ UNCHANGED env
    /\ IF m.text = T_Cancel
       THEN /\ CancelOrder(u)
            /\ tasks' = Dispatched(u)
            /\ UNCHANGED orders
       ELSE /\ Len(orders) < MaxOrders
            /\ data' = UpdateData(data, u, "payment_method", m.text)
            /\ orders' = save_order(orders, Order(u, data'[u], m.text))
            /\ IF m.text = PyNone
               THEN /\ tasks' = Dispatched(u)
                    /\ reply' = Silent(u)
               ELSE /\ CanSuspend(u)
                    /\ reply' = PaymentReply(u, m.text, NextId(orders))
                    /\ tasks' = Suspend(Task(u, "payment_step", m.text, NextId(orders)))
            /\ UNCHANGED state

\* a payment_step that swallows the failure of save_order and resets the
\* session as if the order had been taken
payment_step_save_failed_Swallowed(u, m) ==
    /\ Route(state[u], m) = "payment_step"
    /\ UNCHANGED env
    /\ m.text # T_Cancel
    /\ state' = ClearState(state, u)
    /\ data' = ClearData(data, u)
    /\ reply' = Answer(u, "Order created. We will contact you soon.", <<>>)
    /\ tasks' = Dispatched(u)
    /\ UNCHANGED orders

\* payment_step when save_order raises (the database cannot be written): the
\* exception leaves the handler after update_data, before any reply
payment_step_save_failed(u, m) ==
    /\ Route(state[u], m) = "payment_step"
    /\ UNCHANGED env
    /\ m.text # T_Cancel
    /\ data' = UpdateData(data, u, "payment_method", m.text)
    /\ tasks' = Dispatched(u)
    /\ reply' = Silent(u)
    /\ UNCHANGED <<state, orders>>

\* a payment_step that records the id of the newest row of the table instead
\* of the id its own save_order returned
payment_step_answered_LatestRow(t, delivered) ==
    /\ t \in BagToSet(tasks)
    /\ UNCHANGED env
    /\ t.pc = "payment_step"
    /\ IF Contains(t.arg, "USDT") \/ Contains(t.arg, "Manual")
       THEN /\ state' = SetState(state, t.user, "waiting_payment_ref")
            /\ data' = UpdateData(data, t.user, "order_id", Len(orders))
       ELSE /\ state' = ClearState(state, t.user)
            /\ data' = ClearData(data, t.user)
    /\ tasks' = Finish(t)
    /\ UNCHANGED <<orders, reply>>

\* the rest of payment_step once the reply is sent: the session moves on, then
\* the administrator is notified (delivered or not: a failure is only logged)
payment_step_answered(t, delivered) ==
    /\ t \in BagToSet(tasks)
    /\ UNCHANGED env
    /\ t.pc = "payment_step"
    /\ IF Contains(t.arg, "USDT") \/ Contains(t.arg, "Manual")
       THEN /\ state' = SetState(state, t.user, "waiting_payment_ref")
            /\ data' = UpdateData(data, t.user, "order_id", t.oid)
       ELSE /\ state' = ClearState(state, t.user)
            /\ data' = ClearData(data, t.user)
    /\ tasks' = Finish(t)
    /\ UNCHANGED <<orders, reply>>

\* a waiting_payment whose Cancel branch also marks the order cancelled
waiting_payment_CancelsOrder(u, m) ==
    /\ Route(state[u], m) = "waiting_payment"
    /\ UNCHANGED env
    /\ m.text = T_Cancel
    /\ state' = ClearState(state, u)
    /\ data' = ClearData(data, u)
    /\ reply' = Answer(u, "Order cancelled. You can start again from main menu.", <<>>)
    /\ tasks' = Dispatched(u)
    /\ orders' = set_order_status(orders, data[u].order_id, "cancelled")

\* a waiting_payment without the intent branch: 'I paid' and 'Contact Admin'
\* fall through to the catch-all and are stored as the reference
waiting_payment_NoIntent(u, m) ==
    /\ Route(state[u], m) = "waiting_payment"
    /\ UNCHANGED env
    /\ IF m.text = T_Cancel
       THEN /\ state' = ClearState(state, u)
            /\ data' = ClearData(data, u)
            /\ reply' = Answer(u, "Order cancelled. You can start again from main menu.",
                               <<>>)
            /\ tasks' = Dispatched(u)
            /\ UNCHANGED orders
       ELSE /\ CanSuspend(u)
            /\ orders' = UpdateReference(orders, data[u].order_id, m.text,
                                         "pending_confirm")
            /\ reply' = Answer(u, "Thanks - payment reference saved",
                               <<data[u].order_id>>)
            /\ tasks' = Suspend(Task(u, "waiting_payment", m.text, data[u].order_id))
            /\ UNCHANGED <<state, data>>

\* waiting_payment up to its first reply
waiting_payment(u, m) ==
    /\ Route(state[u], m) = "waiting_payment"
    /\ UNCHANGED env
    /\ IF m.text = T_Cancel
       THEN /\ state' = ClearState(state, u)
            /\ data' = ClearData(data, u)
            /\ reply' = Answer(u, "Order cancelled. You can start again from main menu.",
                               <<>>)
            /\ tasks' = Dispatched(u)
            /\ UNCHANGED orders
       ELSE IF m.text \in {T_IPaid, T_ContactAdmin}
       THEN /\ reply' = Answer(u, "Please send payment reference", <<>>)
            /\ tasks' = Dispatched(u)
            /\ UNCHANGED <<state, data, orders>>
       ELSE /\ CanSuspend(u)
            /\ orders' = UpdateReference(orders, data[u].order_id, m.text,
                                         "pending_confirm")
            /\ reply' = Answer(u, "Thanks - payment reference saved",
                               <<data[u].order_id>>)
            /\ tasks' = Suspend(Task(u, "waiting_payment", m.text, data[u].order_id))
            /\ UNCHANGED <<state, data>>

\* waiting_payment when the UPDATE raises (the database cannot be written):
\* the exception leaves the handler before the reply and before state.clear()
waiting_payment_update_failed(u, m) ==
    /\ Route(state[u], m) = "waiting_payment"
    /\ UNCHANGED env
    /\ m.text \notin {T_Cancel, T_IPaid, T_ContactAdmin}
    /\ tasks' = Dispatched(u)
    /\ reply' = Silent(u)
    /\ UNCHANGED <<state, data, orders>>

\* the rest of waiting_payment: after the reply, bot.send_message to the
\* administrator; state.clear() runs only if that call returned
waiting_payment_notified(t, delivered) ==
    /\ t \in BagToSet(tasks)
    /\ UNCHANGED env
    /\ t.pc = "waiting_payment"
    /\ IF delivered
       THEN /\ state' = ClearState(state, t.user)
            /\ data' = ClearData(data, t.user)
       ELSE UNCHANGED <<state, data>>
    /\ tasks' = Finish(t)
    /\ UNCHANGED <<orders, reply>>

\* ORDER BY id DESC of a set of rows
RECURSIVE OrderByIdDesc(_)
OrderByIdDesc(rows) ==
    IF rows = {} THEN <<>>
    ELSE LET top == CHOOSE r \in rows : \A q \in rows : q.id <= r.id
         IN <<top>> \o OrderByIdDesc(rows \ {top})

Rows(os) == {os[i] : i \in 1..Len(os)}

\* list_orders: every row, newest first
list_orders(os) == OrderByIdDesc(Rows(os))

\* a SELECT of my_orders without its WHERE clause: every user's rows
list_orders_of_Everyone(os, u) == OrderByIdDesc(Rows(os))

\* the SELECT of my_orders: the rows of one user, newest first
list_orders_of(os, u) == OrderByIdDesc({r \in Rows(os) : r.user_id = u})

my_orders(u, m) ==
    /\ Route(state[u], m) = "my_orders"
    /\ UNCHANGED env
    /\ reply' = IF list_orders_of(orders, u) = <<>>
                THEN Answer(u, "You have no orders yet.", <<>>)
                ELSE Answer(u, "Your orders:",
                            [i \in 1..Len(list_orders_of(orders, u)) |->
                                list_orders_of(orders, u)[i].id])
    /\ tasks' = Dispatched(u)
    /\ UNCHANGED <<state, data, orders>>

contact_admin(u, m) ==
    /\ Route(state[u], m) = "contact_admin"
    /\ UNCHANGED env
    /\ reply' = Answer(u, "Admin will be notified.", <<>>)
    /\ tasks' = Dispatched(u)
    /\ UNCHANGED <<state, data, orders>>

\* /orders
admin_list_orders(u, m) ==
    /\ Route(state[u], m) = "admin_list_orders"
    /\ UNCHANGED env
    /\ reply' = IF u # ADMIN_ID THEN Silent(u)
                ELSE IF list_orders(orders) = <<>>
                THEN Answer(u, "No orders yet.", <<>>)
                ELSE Answer(u, "orders",
                            [i \in 1..Len(orders) |-> list_orders(orders)[i].id])
    /\ tasks' = Dispatched(u)
    /\ UNCHANGED <<state, data, orders>>

\* /order_<id>
admin_view_order(u, m) ==
    /\ Route(state[u], m) = "admin_view_order"
    /\ UNCHANGED env
    /\ reply' = IF u # ADMIN_ID THEN Silent(u)
                ELSE IF ParseInt(AfterUnderscore(m.text)) = -1
                THEN Answer(u, "Invalid command. Use /order_<id>", <<>>)
                ELSE IF get_order(orders, ParseInt(AfterUnderscore(m.text))) = {}
                THEN Answer(u, "Order not found", <<>>)
                ELSE Answer(u, "Order", <<ParseInt(AfterUnderscore(m.text))>>)
    /\ tasks' = Dispatched(u)
    /\ UNCHANGED <<state, data, orders>>

\* /setstatus <order_id> <status>; the user of the order is then notified
\* (delivered or not: a failure is only logged)
admin_set_status(u, m, delivered) ==
    /\ Route(state[u], m) = "admin_set_status"
    /\ UNCHANGED env
    /\ IF u # ADMIN_ID
       THEN /\ reply' = Silent(u)
            /\ UNCHANGED orders
       ELSE IF Len(Split(m.text)) < 3
       THEN /\ reply' = Answer(u, "Usage: /setstatus <order_id> <status>", <<>>)
            /\ UNCHANGED orders
       ELSE IF ParseInt(Split(m.text)[2]) = -1
       THEN /\ reply' = Answer(u, "Invalid order id", <<>>)
            /\ UNCHANGED orders
       ELSE /\ orders' = set_order_status(orders, ParseInt(Split(m.text)[2]),
                                          Split(m.text)[3])
            /\ reply' = Answer(u, "Order status set", <<ParseInt(Split(m.text)[2])>>)
    /\ tasks' = Dispatched(u)
    /\ UNCHANGED <<state, data>>

\* no handler accepts the message: the update is dropped
unhandled(u, m) ==
    /\ Route(state[u], m) = "unhandled"
    /\ UNCHANGED env
    /\ tasks' = Dispatched(u)
    /\ reply' = Silent(u)
    /\ UNCHANGED <<state, data, orders>>

\* the messages that can be dispatched for user u now
Inbox(u) ==
    IF CanDispatch(u) THEN Inputs(u, state[u], script, cast = {u}) ELSE {}

Next ==
    \/ \E u \in cast : \E m \in Inbox(u) : cmd_start(u, m)
    \/ \E u \in cast : \E m \in Inbox(u) : buy_website(u, m)
    \/ \E u \in cast : \E m \in Inbox(u) : buy_bot(u, m)
    \/ \E u \in cast : \E m \in Inbox(u) : choose_template(u, m)
    \/ \E u \in cast : \E m \in Inbox(u) : details_step(u, m)
    \/ \E u \in cast : \E m \in Inbox(u) : files_step(u, m)
    \/ \E u \in cast : \E m \in Inbox(u) : payment_step(u, m)
    \/ \E u \in cast : \E m \in Inbox(u) : waiting_payment(u, m)
    \/ \E u \in cast : \E m \in Inbox(u) : payment_step_save_failed(u, m)
    \/ \E u \in cast : \E m \in Inbox(u) : waiting_payment_update_failed(u, m)
    \/ \E u \in cast : \E m \in Inbox(u) : my_orders(u, m)
    \/ \E u \in cast : \E m \in Inbox(u) : contact_admin(u, m)
    \/ \E u \in cast : \E m \in Inbox(u) : admin_list_orders(u, m)
    \/ \E u \in cast : \E m \in Inbox(u) : admin_view_order(u, m)
    \/ \E u \in cast : \E m \in Inbox(u) : \E delivered \in BOOLEAN :
          admin_set_status(u, m, delivered)
    \/ \E u \in cast : \E m \in Inbox(u) : unhandled(u, m)
    \/ \E t \in BagToSet(tasks) : buy_update_data(t)
    \/ \E t \in BagToSet(tasks) : \E saved \in BOOLEAN : files_step_downloaded(t, saved)
    \/ \E t \in BagToSet(tasks) : \E delivered \in BOOLEAN :
          payment_step_answered(t, delivered)
    \/ \E t \in BagToSet(tasks) : \E delivered \in BOOLEAN :
          waiting_payment_notified(t, delivered)

Spec == Init /\ [][Next]_vars

\* ------------------------------------------------------------- properties
\* the value a row holds for a session field: None for a missing key
Held(v) == IF v = Absent THEN PyNone ELSE v
LastRow(os) == os[Len(os)]
Ids(os) == {os[i].id : i \in 1..Len(os)}
RowOf(os, oid) == CHOOSE r \in Rows(os) : r.id = oid

\* C1: a payment-method message of the USDT or Manual family at
\* choosing_payment inserts exactly one row; the row holds the session's
\* product type, template choice, details, files and payment method, the price
\* of the category (100 for Website, 80 otherwise), status 'new' and an empty
\* payment reference; the rows already in the table are unchanged.
C1_OneRowFromSession ==
    [][\A u \in Users : \A m \in {Text(T_USDT), Text(T_Manual)} :
          payment_step(u, m) =>
             /\ Len(orders') = Len(orders) + 1
             /\ SubSeq(orders', 1, Len(orders)) = orders
             /\ LastRow(orders').product_type = Held(data[u].product_type)
             /\ LastRow(orders').template_choice = Held(data[u].template_choice)
             /\ LastRow(orders').details = Held(data[u].details)
             /\ LastRow(orders').files = Held(data[u].files)
             /\ LastRow(orders').payment_method = m.text
             /\ data'[u].payment_method = m.text
             /\ LastRow(orders').price
                   = (IF data[u].product_type = "Website" THEN 100 ELSE 80)
             /\ LastRow(orders').status = "new"
             /\ LastRow(orders').payment_reference = ""]_vars

\* a Telegram Bot order paid by bank/card was just created from a complete session
C1_Witness ==
    /\ Len(orders) = 1
    /\ orders[1].product_type = "Telegram Bot"
    /\ orders[1].price = 80
    /\ orders[1].payment_method = T_Manual
    /\ orders[1].files = "document:logo.png"
    /\ reply = Answer(orders[1].user_id,
                      "Order created. Please contact admin for bank/card details", <<1>>)
    /\ state[orders[1].user_id] = "choosing_payment"

\* C2: two handlers of one user never both observe choosing_payment and both
\* save an order: at most one payment_step of a user is between its
\* save_order and its session write.
C2_PerUserSerialized ==
    \A t1, t2 \in BagToSet(tasks) :
        (t1.pc = "payment_step" /\ t2.pc = "payment_step" /\ t1.user = t2.user)
            => (t1 = t2 /\ tasks[t1] = 1)

\* C3: Cancel at choosing_template, entering_details, uploading_files or
\* choosing_payment inserts no row, changes no row, and leaves the user's
\* session idle with no field.
C3_CancelDiscards ==
    [][\A u \in Users :
          (\/ choose_template(u, Text(T_Cancel))
           \/ details_step(u, Text(T_Cancel))
           \/ files_step(u, Text(T_Cancel))
           \/ payment_step(u, Text(T_Cancel)))
          => /\ orders' = orders
             /\ state'[u] = "idle"
             /\ data'[u] = EmptyData]_vars

\* the bot has just answered a Cancel before any order was ever saved
C3_Witness ==
    /\ reply.text = "Order cancelled."
    /\ state[reply.chat] = "idle"
    /\ data[reply.chat] = EmptyData
    /\ orders = <<>>

\* the administrator's commands
AdminCommands ==
    {Text(t) : t \in {T_Orders, T_Order1, T_OrderBad, T_SetStatus1, T_SetStatus2,
                      T_SetStatusNew, T_SetStatusBad, T_SetStatusShort}}

\* some handler handles message m of user u
Handled(u, m) ==
    \/ cmd_start(u, m) \/ buy_website(u, m) \/ buy_bot(u, m)
    \/ choose_template(u, m) \/ details_step(u, m) \/ files_step(u, m)
    \/ payment_step(u, m) \/ waiting_payment(u, m)
    \/ payment_step_save_failed(u, m) \/ waiting_payment_update_failed(u, m)
    \/ my_orders(u, m) \/ contact_admin(u, m)
    \/ admin_list_orders(u, m) \/ admin_view_order(u, m)
    \/ \E delivered \in BOOLEAN : admin_set_status(u, m, delivered)
    \/ unhandled(u, m)

\* C4: a text at waiting_payment_ref that is neither Cancel nor 'I paid' nor
\* 'Contact Admin' is written to the session's order as payment_reference
\* together with status 'pending_confirm', and the handler that wrote it ends
\* with the user's session idle with no field.
C4_ReferenceRecordedAndCleared ==
    [][/\ \A u \in Users : \A m \in Messages :
             (/\ state[u] = "waiting_payment_ref"
              /\ m.kind = "text"
              /\ m.text \notin {T_Cancel, T_IPaid, T_ContactAdmin}
              /\ Handled(u, m))
             => /\ get_order(orders', data[u].order_id) # {}
                /\ \A r \in get_order(orders', data[u].order_id) :
                      r.payment_reference = m.text /\ r.status = "pending_confirm"
       /\ \A t \in BagToSet(tasks) : \A delivered \in BOOLEAN :
             waiting_payment_notified(t, delivered) =>
                /\ \A r \in get_order(orders', t.oid) :
                      r.payment_reference = t.arg /\ r.status = "pending_confirm"
                /\ state'[t.user] = "idle"
                /\ data'[t.user] = EmptyData]_vars

\* C5: Cancel at waiting_payment_ref leaves the session idle with no field
\* and every row of the table as it was.
C5_CancelKeepsOrder ==
    [][\A u \in Users :
          waiting_payment(u, Text(T_Cancel)) =>
             /\ state'[u] = "idle"
             /\ data'[u] = EmptyData
             /\ orders' = orders]_vars

\* the bot has just answered a Cancel at waiting_payment_ref and the order of
\* that user is still new with an empty reference
C5_Witness ==
    /\ reply.text = "Order cancelled. You can start again from main menu."
    /\ state[reply.chat] = "idle"
    /\ \E r \in Rows(orders) :
          r.user_id = reply.chat /\ r.status = "new" /\ r.payment_reference = ""

\* C6: a command of the administrator, at whatever step the administrator's
\* own session is, is handled by its admin handler and leaves that session's
\* step and fields unchanged.
C6_AdminOutsideFsm ==
    [][\A m \in AdminCommands :
          Handled(ADMIN_ID, m) =>
             /\ state'[ADMIN_ID] = state[ADMIN_ID]
             /\ data'[ADMIN_ID] = data[ADMIN_ID]
             /\ \/ admin_list_orders(ADMIN_ID, m)
                \/ admin_view_order(ADMIN_ID, m)
                \/ \E delivered \in BOOLEAN : admin_set_status(ADMIN_ID, m, delivered)]_vars

\* C7: whether a notification is delivered or fails, the step that sends it
\* ends in the same table and the same session as when it is delivered.
C7_NotifierFailureContained ==
    [][/\ \A t \in BagToSet(tasks) :
             /\ payment_step_answered(t, FALSE) => payment_step_answered(t, TRUE)
             /\ waiting_payment_notified(t, FALSE) => waiting_payment_notified(t, TRUE)
       /\ \A u \in Users : \A m \in Messages :
             admin_set_status(u, m, FALSE) => admin_set_status(u, m, TRUE)]_vars

\* C8: no message makes a handler raise: a payment_step that saved an order
\* goes on to its reply and its session transition.
C8_NoInputRaises ==
    [][\A u \in Users : \A m \in Messages :
          (payment_step(u, m) /\ Len(orders') > Len(orders)) =>
             \E t \in BagToSet(tasks') :
                /\ t.pc = "payment_step" /\ t.user = u
                /\ t.oid = LastRow(orders').id
                /\ t \notin BagToSet(tasks)]_vars

\* C9: an order saved for a user gets an id no other row has, carries that
\* user's identity and the fields of that user's own session, and saving it
\* touches no other user's session.
C9_OwnSessionDistinctId ==
    [][\A u \in Users : \A m \in Messages :
          (state[u] = "choosing_payment" /\ payment_step(u, m) /\ m.text # T_Cancel) =>
             /\ LastRow(orders').id \notin Ids(orders)
             /\ Cardinality(Ids(orders')) = Len(orders')
             /\ LastRow(orders').user_id = u
             /\ LastRow(orders').product_type = Held(data[u].product_type)
             /\ LastRow(orders').template_choice = Held(data[u].template_choice)
             /\ LastRow(orders').details = Held(data[u].details)
             /\ LastRow(orders').files = Held(data[u].files)
             /\ LastRow(orders').payment_method = m.text
             /\ \A v \in Users \ {u} : state'[v] = state[v] /\ data'[v] = data[v]]_vars

\* both users are between save_order and the session write of payment_step,
\* each with its own order
C9_Witness ==
    \E t1, t2 \in BagToSet(tasks) :
        /\ t1.pc = "payment_step" /\ t2.pc = "payment_step"
        /\ t1.user # t2.user
        /\ t1.oid # t2.oid
        /\ RowOf(orders, t1.oid).user_id = t1.user
        /\ RowOf(orders, t2.oid).user_id = t2.user
        /\ RowOf(orders, t1.oid).template_choice # RowOf(orders, t2.oid).template_choice

\* the /setstatus texts with the order id and the status they name
SetStatusCases ==
    {<<T_SetStatus1, 1, "shipped">>, <<T_SetStatus2, 2, "shipped">>,
     <<T_SetStatusNew, 1, "new">>}

\* C10: after /setstatus of the administrator, get_order of an existing id
\* returns the new status whatever the status was, every other field and row
\* is unchanged, and for an id that is not in the table nothing changes.
C10_SetStatusThenGet ==
    [][\A c \in SetStatusCases : \A delivered \in BOOLEAN :
          admin_set_status(ADMIN_ID, Text(c[1]), delivered) =>
             IF c[2] \in Ids(orders)
             THEN /\ Len(orders') = Len(orders)
                  /\ \A r \in get_order(orders', c[2]) : r.status = c[3]
                  /\ get_order(orders', c[2]) # {}
                  /\ \A i \in 1..Len(orders) :
                        orders'[i] = IF orders[i].id = c[2]
                                     THEN [orders[i] EXCEPT !.status = c[3]]
                                     ELSE orders[i]
             ELSE orders' = orders]_vars

\* an order that had a payment reference recorded (pending_confirm) is now
\* shipped, and the bot has just answered the /setstatus
C10_Witness ==
    /\ reply.text = "Order status set"
    /\ \E r \in Rows(orders) :
          /\ r.status = "shipped" /\ r.payment_reference # ""
          /\ reply.shown = <<r.id>>

\* the else branch of payment_step: neither 'USDT' nor 'Manual' is in the text
Fallback(payment_method) ==
    ~Contains(payment_method, "USDT") /\ ~Contains(payment_method, "Manual")

\* C11: a payment-method message of neither family creates one order with
\* status 'new' and goes on to its reply; the handler then ends with the
\* session idle with no field; and no later step writes a payment reference
\* or the status 'pending_confirm' to an order of the fallback family.
C11_FallbackNeverCollectsReference ==
    [][/\ \A u \in Users : \A m \in Messages :
             (payment_step(u, m) /\ m.text # T_Cancel /\ Fallback(m.text)) =>
                /\ Len(orders') = Len(orders) + 1
                /\ LastRow(orders').status = "new"
                /\ \E t \in BagToSet(tasks') :
                      /\ t.pc = "payment_step" /\ t.user = u
                      /\ t.oid = LastRow(orders').id
                      /\ t \notin BagToSet(tasks)
       /\ \A t \in BagToSet(tasks) : \A delivered \in BOOLEAN :
             (payment_step_answered(t, delivered) /\ Fallback(t.arg)) =>
                /\ state'[t.user] = "idle"
                /\ data'[t.user] = EmptyData
       /\ \A i \in 1..Len(orders) :
             Fallback(orders[i].payment_method) =>
                /\ orders'[i].payment_reference = ""
                /\ orders'[i].status # "pending_confirm"]_vars

\* the fields a session has gathered before the payment method
Gathered(d) == <<d.product_type, d.template_choice, d.details, d.files, d.order_id>>

\* C12: when save_order fails at choosing_payment no row is inserted, no
\* reply claims an order, and the session stays at choosing_payment with the
\* fields gathered so far; when the reference UPDATE fails at
\* waiting_payment_ref every row is unchanged and the session stays at
\* waiting_payment_ref with its order id and fields.
C12_StorageFailureKeepsStep ==
    [][\A u \in Users :
          /\ state[u] = "choosing_payment" =>
                \A m \in Messages :
                   payment_step_save_failed(u, m) =>
                      /\ orders' = orders
                      /\ reply' = Silent(u)
                      /\ state'[u] = "choosing_payment"
                      /\ Gathered(data'[u]) = Gathered(data[u])
          /\ state[u] = "waiting_payment_ref" =>
                \A m \in Messages :
                   waiting_payment_update_failed(u, m) =>
                      /\ orders' = orders
                      /\ reply' = Silent(u)
                      /\ state'[u] = "waiting_payment_ref"
                      /\ data'[u] = data[u]]_vars

\* a USDT payment message was refused by the database: the session is still
\* at choosing_payment with all its fields and the table is empty
C12_Witness ==
    \E u \in Users :
        /\ state[u] = "choosing_payment"
        /\ data[u].payment_method = T_USDT
        /\ data[u].product_type = "Website"
        /\ data[u].files = "no files"
        /\ orders = <<>>
        /\ tasks = EmptyBag

\* the replies sent with reply_markup=main_kb: they show the main menu
MainMenuReplies ==
    {"Welcome to TANKIST256 marketplace!", "Order cancelled.",
     "Order created. We will contact you soon.",
     "Order cancelled. You can start again from main menu.",
     "Thanks - payment reference saved", "You have no orders yet.",
     "Your orders:", "Admin will be notified."}

\* C13: a message at idle that is not a category button (nor a command of the
\* administrator, which has its own replies) is answered by a handler with a
\* reply that shows the main menu, and leaves the session idle, adds no field
\* to it and changes no order.
C13_IdleRedisplaysMenu ==
    [][\A u \in Users :
          state[u] = "idle" =>
             \A m \in Messages \ {Text(T_BuyWebsite), Text(T_BuyBot)} :
                (Handled(u, m) /\ ~(u = ADMIN_ID /\ m \in AdminCommands)) =>
                   /\ ~unhandled(u, m)
                   /\ reply'.chat = u
                   /\ reply'.text \in MainMenuReplies
                   /\ state'[u] = "idle"
                   /\ data'[u] \in {data[u], EmptyData}
                   /\ orders' = orders]_vars

\* C14: a command of the administrator sent by another user, whatever handler
\* takes it, changes no row of the table and is answered with no order data.
C14_NonAdminCommandsInert ==
    [][\A u \in Users \ {ADMIN_ID} : \A m \in AdminCommands :
          Handled(u, m) =>
             /\ orders' = orders
             /\ reply'.shown = <<>>]_vars

\* the sequence sq lists exactly the rows of set rs, by strictly descending id
ListsNewestFirst(sq, rs) ==
    /\ {sq[i] : i \in 1..Len(sq)} = rs
    /\ \A i \in 1..Len(sq) : \A j \in 1..Len(sq) : i < j => sq[i].id > sq[j].id

\* C15: in every reachable table, list_orders lists every row and the SELECT
\* of my_orders lists exactly the rows of the asking user, both by strictly
\* descending id; the replies of /orders and My Orders show those ids.
C15_ListsNewestFirst ==
    /\ ListsNewestFirst(list_orders(orders), Rows(orders))
    /\ \A u \in Users :
          ListsNewestFirst(list_orders_of(orders, u),
                           {r \in Rows(orders) : r.user_id = u})
    /\ reply.text = "Your orders:" =>
          reply.shown = [i \in 1..Len(list_orders_of(orders, reply.chat)) |->
                            list_orders_of(orders, reply.chat)[i].id]
    /\ reply.text = "orders" =>
          reply.shown = [i \in 1..Len(orders) |-> list_orders(orders)[i].id]

\* two users have one order each, one of them already updated, and My Orders
\* has just shown a user the one order that is theirs
C15_Witness ==
    /\ Len(orders) = 2
    /\ orders[1].user_id # orders[2].user_id
    /\ \E r \in Rows(orders) : r.status = "pending_confirm"
    /\ reply.text = "Your orders:"
    /\ Len(reply.shown) = 1

\* C16: a session that is at idle holds no field: no product type, template
\* choice, details, files, payment method or order id.
C16_IdleHoldsNoField ==
    \A u \in Users : state[u] = "idle" => data[u] = EmptyData

\* the product_type values buy_website and buy_bot record
Products == {"Website", "Telegram Bot"}

\* C17: a session whose step is not idle holds the product category of the
\* button that started it, and every row of the table has one.
C17_StepHoldsProduct ==
    /\ \A u \in Users : state[u] # "idle" => data[u].product_type \in Products
    /\ \A r \in Rows(orders) : r.product_type \in Products

\* C18: at waiting_payment_ref 'I paid' and 'Contact Admin' are answered with
\* the prompt for the reference and leave the session (step, order id, fields)
\* and every row unchanged; Cancel takes the cancel branch, the two tokens the
\* prompt branch, and only other messages the branch that stores a reference.
C18_IntentTokensReprompt ==
    [][\A u \in Users :
          state[u] = "waiting_payment_ref" =>
             \A m \in Messages :
                waiting_payment(u, m) =>
                   /\ m.text \in {T_IPaid, T_ContactAdmin} =>
                         /\ reply' = Answer(u, "Please send payment reference", <<>>)
                         /\ state'[u] = "waiting_payment_ref"
                         /\ data'[u] = data[u]
                         /\ orders' = orders
                   /\ m.text = T_Cancel =>
                         /\ reply'.text
                               = "Order cancelled. You can start again from main menu."
                         /\ orders' = orders
                   /\ m.text \notin {T_Cancel, T_IPaid, T_ContactAdmin} =>
                         reply'.text = "Thanks - payment reference saved"]_vars

\* the bot has just asked again for the reference: the session still waits
\* with the id of an order that is new and has no reference
C18_Witness ==
    /\ reply.text = "Please send payment reference"
    /\ state[reply.chat] = "waiting_payment_ref"
    /\ \E r \in get_order(orders, data[reply.chat].order_id) :
          r.status = "new" /\ r.payment_reference = ""

\* a row without the two columns the UPDATE statements write
Frozen(r) == [r EXCEPT !.status = "", !.payment_reference = ""]

\* C19: no step removes a row or changes a column of an existing row other
\* than status and payment_reference, and the ids of the table are strictly
\* increasing in the order of insertion (hence unique).
C19_RowsAppendOnly ==
    [][/\ Len(orders') >= Len(orders)
       /\ \A i \in 1..Len(orders) : Frozen(orders'[i]) = Frozen(orders[i])
       /\ \A i \in 1..Len(orders') : \A j \in 1..Len(orders') :
             i < j => orders'[i].id < orders'[j].id]_vars

\* the first of two orders has had a reference recorded and was then shipped,
\* the second is still new
C19_Witness ==
    /\ Len(orders) = 2
    /\ orders[1].status = "shipped"
    /\ orders[1].payment_reference # ""
    /\ orders[2].status = "new"
    /\ orders[2].payment_reference = ""

\* C20: a session at waiting_payment_ref holds the id of an existing order of
\* its own user; the payment_step that enters the step records the id of the
\* order it saved itself; and a message handled at waiting_payment_ref
\* changes no order of another user.
C20_WaitingNamesOwnOrder ==
    [][/\ \A u \in Users :
             state'[u] = "waiting_payment_ref" =>
                /\ get_order(orders', data'[u].order_id) # {}
                /\ \A r \in get_order(orders', data'[u].order_id) : r.user_id = u
       /\ \A t \in BagToSet(tasks) : \A delivered \in BOOLEAN :
             (payment_step_answered(t, delivered) /\ ~Fallback(t.arg)) =>
                /\ state'[t.user] = "waiting_payment_ref"
                /\ data'[t.user].order_id = t.oid
                /\ \A r \in get_order(orders', t.oid) :
                      r.user_id = t.user /\ r.payment_method = t.arg
       /\ \A u \in Users :
             state[u] = "waiting_payment_ref" =>
                \A m \in Messages :
                   (waiting_payment(u, m) \/ waiting_payment_update_failed(u, m)) =>
                      \A i \in 1..Len(orders) :
                         orders[i].user_id # u => orders'[i] = orders[i]]_vars

\* both users wait for a payment reference, each session holding the id of
\* that user's own order
C20_Witness ==
    /\ \A u \in Users :
          /\ state[u] = "waiting_payment_ref"
          /\ \E r \in get_order(orders, data[u].order_id) : r.user_id = u
    /\ \E u \in Users : \E v \in Users : data[u].order_id # data[v].order_id

====
